---- MODULE Spec2Model ----
(***************************************************************************)
(* Model of init_chroma_collections.py: the initialization script that     *)
(* creates the five ChromaDB collections of the Bitcoin trading game and   *)
(* writes chroma_collections_info.json.  The store is the persistent       *)
(* ChromaDB store; one run of main() is a sequence of collaborator calls,  *)
(* each of which may raise.                                                *)
(***************************************************************************)
EXTENDS Integers, Sequences, FiniteSets, TLC

VARIABLES
    store,                \* name -> [metadata, docs]: the persistent store
    report,               \* chroma_collections_info.json
    pc,                   \* position of main()
    i,                    \* index of the running for loop
    created_collections,  \* main's list of processed names
    all_collections,      \* result of client.list_collections()
    collections_info,     \* the records collected for the report
    calls,                \* collaborator calls made by the current run
    writes,               \* number of times the current run wrote the report
    exitCode,             \* exit code of the current run, -1 while running
    run,                  \* ordinal of the current run
    store0,               \* the store when the current run started
    prevExit              \* exit code of the previous run, -1 if none

vars == <<store, report, pc, i, created_collections, all_collections,
          collections_info, calls, writes, exitCode, run, store0, prevExit>>

\* ------------------------------------------------------------------ bounds
MaxRuns == 2    \* successive runs of the script
MaxPre == 1     \* collections in the store before the first run
MaxDocs == 1    \* documents in a collection that existed beforehand

\* ----------------------------------------------------------- configuration
get_collection_configs ==
    << [name |-> "bitcoin_historical_data",
        metadata |-> [
          description |-> "Historical Bitcoin price data, market indicators, and trading volumes for game analysis",
          data_types |-> "price,volume,market_cap,technical_indicators,timestamps",
          usage |-> "Store and query historical Bitcoin data for game scenarios and backtesting",
          category |-> "market_data"]],
       [name |-> "user_portfolios",
        metadata |-> [
          description |-> "User trading positions, portfolio performance, and transaction history",
          data_types |-> "user_id,positions,balance,transactions,performance_metrics",
          usage |-> "Track user portfolio state and trading activity across game sessions",
          category |-> "user_data"]],
       [name |-> "game_achievements",
        metadata |-> [
          description |-> "User achievements, progress tracking, rewards, and milestone completions",
          data_types |-> "user_id,achievement_type,completion_date,rewards,progress",
          usage |-> "Store and retrieve user progress for gamification and reward systems",
          category |-> "gamification"]],
       [name |-> "market_analysis",
        metadata |-> [
          description |-> "Technical analysis results, market predictions, and trading signals",
          data_types |-> "analysis_type,predictions,confidence_scores,trading_signals,timeframes",
          usage |-> "Store AI-generated market analysis and trading recommendations for the game",
          category |-> "analytics"]],
       [name |-> "educational_content",
        metadata |-> [
          description |-> "Trading tutorials, educational materials, tips, and strategy guides",
          data_types |-> "content_type,difficulty_level,topics,media_urls,learning_objectives",
          usage |-> "Provide educational content to help users learn trading concepts and strategies",
          category |-> "education"]] >>

NumConfigs_short == Len(get_collection_configs) - 1

\* the for loop of main visits every configuration
NumConfigs == Len(get_collection_configs)

ConfigNames == {get_collection_configs[k].name : k \in 1..Len(get_collection_configs)}

ConfigMetadata(n) ==
    get_collection_configs[CHOOSE k \in 1..Len(get_collection_configs) :
        get_collection_configs[k].name = n].metadata

\* ----------------------------------------------- the store (collaborator)
\* a collection of the store that the script does not configure
ForeignName == "legacy_collection"

\* metadata of a collection that something else than this script created
ForeignMetadata ==
    [description |-> "legacy", data_types |-> "legacy",
     usage |-> "legacy", category |-> "legacy"]

\* the order in which list_collections returns the collections
ListOrder ==
    << "bitcoin_historical_data", "user_portfolios", "game_achievements",
       "market_analysis", "educational_content", "legacy_collection" >>

AllNames == ConfigNames \cup {ForeignName}

PreMetadata(n) ==
    IF n \in ConfigNames THEN {ConfigMetadata(n), ForeignMetadata}
                         ELSE {ForeignMetadata}

\* the stores a first run can find
InitStores ==
    UNION { { s \in [D -> [metadata : {ConfigMetadata(n) : n \in ConfigNames}
                                        \cup {ForeignMetadata},
                           docs : 0..MaxDocs]] :
                \A n \in D : s[n].metadata \in PreMetadata(n) } :
            D \in {E \in SUBSET AllNames : Cardinality(E) <= MaxPre} }

create_collection_nometa(s, n, m) ==
    [x \in DOMAIN s \cup {n} |->
        IF x = n THEN [metadata |-> ForeignMetadata, docs |-> 0] ELSE s[x]]

\* client.create_collection(name=..., metadata=...): a new, empty collection
create_collection(s, n, m) ==
    [x \in DOMAIN s \cup {n} |->
        IF x = n THEN [metadata |-> m, docs |-> 0] ELSE s[x]]

\* outcome of client.get_collection(name): raises when the collection is
\* missing, and may raise for any other reason (fail)
GetOutcome(s, n, fail) ==
    IF fail THEN "error" ELSE IF n \in DOMAIN s THEN "ok" ELSE "notfound"

\* outcome of client.create_collection(name): raises when the name is
\* taken, and may raise for any other reason (fail)
CreateOutcome(s, n, fail) ==
    IF fail THEN "error" ELSE IF n \in DOMAIN s THEN "exists" ELSE "ok"

list_collections_configured(s) ==
    LET names == SelectSeq(ListOrder, LAMBDA n : n \in DOMAIN s /\ n \in ConfigNames)
    IN  [k \in 1..Len(names) |-> [name |-> names[k], metadata |-> s[names[k]].metadata]]

\* client.list_collections(): every collection of the store
list_collections(s) ==
    LET names == SelectSeq(ListOrder, LAMBDA n : n \in DOMAIN s)
    IN  [k \in 1..Len(names) |-> [name |-> names[k], metadata |-> s[names[k]].metadata]]

\* coll.count()
count(s, n) == s[n].docs

\* exit(0 if success else 1)
ExitCode(success) == IF success THEN 0 ELSE 1

Call(op, n, out) == [op |-> op, name |-> n, out |-> out]

\* ------------------------------------------------------------------- Init
Init ==
    /\ store \in InitStores
    /\ store0 = store
    /\ report = [present |-> FALSE, data |-> <<>>]
    /\ pc = "init"
    /\ i = 0
    /\ created_collections = <<>>
    /\ all_collections = <<>>
    /\ collections_info = <<>>
    /\ calls = <<>>
    /\ writes = 0
    /\ exitCode = -1
    /\ run = 1
    /\ prevExit = -1

\* `return False` followed by exit(0 if success else 1)
ReturnFalse ==
    /\ pc' = "done"
    /\ exitCode' = ExitCode(FALSE)

\* ---------------------------------------------------------------- actions
InitClient_continue ==
    /\ pc = "init"
    /\ \E ok \in BOOLEAN :
        /\ calls' = Append(calls, Call("PersistentClient", "", IF ok THEN "ok" ELSE "error"))
        /\ pc' = "loop_get" /\ i' = 1 /\ exitCode' = exitCode
    /\ UNCHANGED <<store, report, created_collections, all_collections,
                   collections_info, writes, run, store0, prevExit>>

\* client = chromadb.PersistentClient(path=chroma_data_path)
InitClient ==
    /\ pc = "init"
    /\ \E ok \in BOOLEAN :
        /\ calls' = Append(calls, Call("PersistentClient", "", IF ok THEN "ok" ELSE "error"))
        /\ IF ok THEN pc' = "loop_get" /\ i' = 1 /\ exitCode' = exitCode
                 ELSE ReturnFalse /\ i' = i
    /\ UNCHANGED <<store, report, created_collections, all_collections,
                   collections_info, writes, run, store0, prevExit>>

\* created_collections.append(config['name']) and the next iteration
LoopAdvance(n) ==
    /\ created_collections' = Append(created_collections, n)
    /\ IF i < NumConfigs THEN i' = i + 1 /\ pc' = "loop_get"
                         ELSE i' = 0 /\ pc' = "list"
    /\ exitCode' = exitCode

LoopGet_nocheck ==
    /\ pc = "loop_get"
    /\ LET n == get_collection_configs[i].name IN
       \E fail \in BOOLEAN :
        LET out == GetOutcome(store, n, fail) IN
        /\ calls' = Append(calls, Call("get_collection", n, out))
        /\ pc' = "loop_create"
        /\ UNCHANGED <<i, created_collections, exitCode>>
    /\ UNCHANGED <<store, report, all_collections, collections_info, writes,
                   run, store0, prevExit>>

LoopGet_modify ==
    /\ pc = "loop_get"
    /\ LET n == get_collection_configs[i].name IN
       \E fail \in BOOLEAN :
        LET out == GetOutcome(store, n, fail) IN
        /\ calls' = Append(calls, Call("get_collection", n, out))
        /\ IF out = "ok"
             THEN /\ LoopAdvance(n)
                  /\ store' = [store EXCEPT ![n].metadata =
                                   get_collection_configs[i].metadata]
             ELSE /\ pc' = "loop_create"
                  /\ UNCHANGED <<i, created_collections, exitCode, store>>
    /\ UNCHANGED <<report, all_collections, collections_info, writes,
                   run, store0, prevExit>>

\* try: collection = client.get_collection(name=config['name'])
\* except: (any exception) fall through to create_collection
LoopGet ==
    /\ pc = "loop_get"
    /\ LET n == get_collection_configs[i].name IN
       \E fail \in BOOLEAN :
        LET out == GetOutcome(store, n, fail) IN
        /\ calls' = Append(calls, Call("get_collection", n, out))
        /\ IF out = "ok"
             THEN LoopAdvance(n)
             ELSE /\ pc' = "loop_create"
                  /\ UNCHANGED <<i, created_collections, exitCode>>
    /\ UNCHANGED <<store, report, all_collections, collections_info, writes,
                   run, store0, prevExit>>

LoopCreate_continue ==
    /\ pc = "loop_create"
    /\ LET n == get_collection_configs[i].name
           m == get_collection_configs[i].metadata IN
       \E fail \in BOOLEAN :
        LET out == CreateOutcome(store, n, fail) IN
        /\ calls' = Append(calls, Call("create_collection", n, out))
        /\ IF out = "ok"
             THEN /\ store' = create_collection(store, n, m)
                  /\ LoopAdvance(n)
             ELSE /\ store' = store
                  /\ LoopAdvance(n)
    /\ UNCHANGED <<report, all_collections, collections_info, writes,
                   run, store0, prevExit>>

\* collection = client.create_collection(name=..., metadata=...)
\* except Exception: return False
LoopCreate ==
    /\ pc = "loop_create"
    /\ LET n == get_collection_configs[i].name
           m == get_collection_configs[i].metadata IN
       \E fail \in BOOLEAN :
        LET out == CreateOutcome(store, n, fail) IN
        /\ calls' = Append(calls, Call("create_collection", n, out))
        /\ IF out = "ok"
             THEN /\ store' = create_collection(store, n, m)
                  /\ LoopAdvance(n)
             ELSE /\ store' = store
                  /\ ReturnFalse
                  /\ UNCHANGED <<i, created_collections>>
    /\ UNCHANGED <<report, all_collections, collections_info, writes,
                   run, store0, prevExit>>

\* all_collections = client.list_collections()
ListCollections ==
    /\ pc = "list"
    /\ \E fail \in BOOLEAN :
        /\ calls' = Append(calls, Call("list_collections", "", IF fail THEN "error" ELSE "ok"))
        /\ IF fail
             THEN ReturnFalse /\ UNCHANGED <<all_collections, i>>
             ELSE /\ all_collections' = list_collections(store)
                  /\ exitCode' = exitCode
                  /\ IF Len(list_collections(store)) > 0
                       THEN pc' = "verify_get" /\ i' = 1
                       ELSE pc' = "write" /\ i' = 0
    /\ UNCHANGED <<store, report, created_collections, collections_info,
                   writes, run, store0, prevExit>>

\* first loop: coll = client.get_collection(name=collection.name)
VerifyGet ==
    /\ pc = "verify_get"
    /\ LET n == all_collections[i].name IN
       \E fail \in BOOLEAN :
        LET out == GetOutcome(store, n, fail) IN
        /\ calls' = Append(calls, Call("get_collection", n, out))
        /\ IF out = "ok" THEN pc' = "verify_count" /\ exitCode' = exitCode
                         ELSE ReturnFalse
    /\ UNCHANGED <<store, report, i, created_collections, all_collections,
                   collections_info, writes, run, store0, prevExit>>

\* first loop: count = coll.count() and the prints
VerifyCount ==
    /\ pc = "verify_count"
    /\ LET n == all_collections[i].name IN
       \E fail \in BOOLEAN :
        /\ calls' = Append(calls, Call("count", n, IF fail THEN "error" ELSE "ok"))
        /\ IF fail
             THEN ReturnFalse /\ i' = i
             ELSE /\ exitCode' = exitCode
                  /\ IF i < Len(all_collections)
                       THEN i' = i + 1 /\ pc' = "verify_get"
                       ELSE i' = 1 /\ pc' = "save_get"
    /\ UNCHANGED <<store, report, created_collections, all_collections,
                   collections_info, writes, run, store0, prevExit>>

SaveGet_swallow ==
    /\ pc = "save_get"
    /\ LET n == all_collections[i].name IN
       \E fail \in BOOLEAN :
        LET out == GetOutcome(store, n, fail) IN
        /\ calls' = Append(calls, Call("get_collection", n, out))
        /\ pc' = "save_count" /\ exitCode' = exitCode
    /\ UNCHANGED <<store, report, i, created_collections, all_collections,
                   collections_info, writes, run, store0, prevExit>>

\* second loop: coll = client.get_collection(name=collection.name)
SaveGet ==
    /\ pc = "save_get"
    /\ LET n == all_collections[i].name IN
       \E fail \in BOOLEAN :
        LET out == GetOutcome(store, n, fail) IN
        /\ calls' = Append(calls, Call("get_collection", n, out))
        /\ IF out = "ok" THEN pc' = "save_count" /\ exitCode' = exitCode
                         ELSE ReturnFalse
    /\ UNCHANGED <<store, report, i, created_collections, all_collections,
                   collections_info, writes, run, store0, prevExit>>

\* second loop: collections_info.append({name, metadata, document_count})
SaveCount ==
    /\ pc = "save_count"
    /\ LET n == all_collections[i].name IN
       \E fail \in BOOLEAN :
        /\ calls' = Append(calls, Call("count", n, IF fail THEN "error" ELSE "ok"))
        /\ IF fail
             THEN ReturnFalse /\ UNCHANGED <<i, collections_info>>
             ELSE /\ collections_info' = Append(collections_info,
                        [name |-> all_collections[i].name,
                         metadata |-> all_collections[i].metadata,
                         document_count |-> count(store, n)])
                  /\ exitCode' = exitCode
                  /\ IF i < Len(all_collections)
                       THEN i' = i + 1 /\ pc' = "save_get"
                       ELSE i' = 0 /\ pc' = "write"
    /\ UNCHANGED <<store, report, created_collections, all_collections,
                   writes, run, store0, prevExit>>

\* with open("chroma_collections_info.json", "w") as f: json.dump(...)
\* then return True (the working directory is taken to be writable)
WriteReport ==
    /\ pc = "write"
    /\ report' = [present |-> TRUE, data |-> collections_info]
    /\ writes' = writes + 1
    /\ pc' = "done"
    /\ exitCode' = ExitCode(TRUE)
    /\ UNCHANGED <<store, i, created_collections, all_collections,
                   collections_info, calls, run, store0, prevExit>>

\* the script is started again on the store the last run left
StartRun ==
    /\ pc = "done"
    /\ run < MaxRuns
    /\ run' = run + 1
    /\ prevExit' = exitCode
    /\ store0' = store
    /\ pc' = "init"
    /\ i' = 0
    /\ created_collections' = <<>>
    /\ all_collections' = <<>>
    /\ collections_info' = <<>>
    /\ calls' = <<>>
    /\ writes' = 0
    /\ exitCode' = -1
    /\ UNCHANGED <<store, report>>

Next ==
    \/ InitClient
    \/ LoopGet
    \/ LoopCreate
    \/ ListCollections
    \/ VerifyGet
    \/ VerifyCount
    \/ SaveGet
    \/ SaveCount
    \/ WriteReport
    \/ StartRun

Spec == Init /\ [][Next]_vars

TypeOK ==
    /\ DOMAIN store \subseteq AllNames
    /\ pc \in {"init", "loop_get", "loop_create", "list", "verify_get",
               "verify_count", "save_get", "save_count", "write", "done"}
    /\ exitCode \in {-1, 0, 1}
    /\ run \in 1..MaxRuns

\* ------------------------------------------------------- claim vocabulary
Last(q) == q[Len(q)]

Failed(c) == c.out \in {"error", "exists"}

\* no call of the current run raised for a reason of the environment
NoFault == \A k \in 1..Len(calls) : calls[k].out # "error"

Finished == pc = "done"

CreateCalls == SelectSeq(calls, LAMBDA c : c.op = "create_collection")

ConfigNameSeq == [k \in 1..Len(get_collection_configs) |-> get_collection_configs[k].name]

\* position of the list_collections call in calls, 0 if there is none
ListPos ==
    IF \E k \in 1..Len(calls) : calls[k].op = "list_collections"
      THEN CHOOSE k \in 1..Len(calls) : calls[k].op = "list_collections"
      ELSE 0

\* the calls of one loop over all_collections: get_collection, count, ...
PassCalls ==
    [k \in 1..(2 * Len(all_collections)) |->
        IF k % 2 = 1
          THEN Call("get_collection", all_collections[(k + 1) \div 2].name, "ok")
          ELSE Call("count", all_collections[k \div 2].name, "ok")]

\* C1 (as stated): after a successful run every configured name is in the
\* store with exactly the configured metadata, whatever the store held before.
C1_Original ==
    (Finished /\ exitCode = 0) =>
        \A k \in 1..Len(get_collection_configs) :
            LET c == get_collection_configs[k] IN
            /\ c.name \in DOMAIN store
            /\ store[c.name].metadata = c.metadata

\* C1 (amended): after a successful run every configured name is in the
\* store; its metadata is the configured metadata when the name was absent
\* before the run, and the metadata it had before the run otherwise.
C1_Amended ==
    (Finished /\ exitCode = 0) =>
        \A k \in 1..Len(get_collection_configs) :
            LET c == get_collection_configs[k] IN
            /\ c.name \in DOMAIN store
            /\ c.name \notin DOMAIN store0 => store[c.name].metadata = c.metadata
            /\ c.name \in DOMAIN store0 =>
                   store[c.name].metadata = store0[c.name].metadata

C1_Witness ==
    /\ Finished /\ exitCode = 0
    /\ \E n \in ConfigNames :
          n \in DOMAIN store0 /\ store0[n].metadata # ConfigMetadata(n)
    /\ \E n \in ConfigNames : n \notin DOMAIN store0

\* C2: a run that follows a successful run and in which no call raises for a
\* reason of the environment finds all five collections with get_collection,
\* never calls create_collection, exits 0 and leaves the store as it was.
C2_Idempotent ==
    (run >= 2 /\ prevExit = 0 /\ Finished /\ NoFault) =>
        /\ exitCode = 0
        /\ store = store0
        /\ CreateCalls = <<>>
        /\ \A k \in 1..Len(get_collection_configs) :
              calls[k + 1] = Call("get_collection", get_collection_configs[k].name, "ok")

C2_Witness ==
    run >= 2 /\ prevExit = 0 /\ Finished /\ NoFault /\ writes = 1

\* C3 (as stated): the run never aborts on a configured collection that is
\* in the store when its turn comes, whatever get_collection answered.
C3_ExistingIsSuccess ==
    (Finished /\ Len(calls) > 0 /\ Last(calls).op = "create_collection"
              /\ Failed(Last(calls)))
        => Last(calls).name \notin DOMAIN store

\* C4: a failing create_collection is the last call of the run, which ends
\* with exit code 1 without writing the report: no later configuration is
\* attempted and list_collections is never called.
C4_CreateFailureAborts ==
    \A k \in 1..Len(calls) :
        (calls[k].op = "create_collection" /\ Failed(calls[k])) =>
            /\ k = Len(calls)
            /\ Finished /\ exitCode = 1
            /\ writes = 0
            /\ \A j \in 1..Len(calls) : calls[j].op # "list_collections"
            /\ \A j \in 1..Len(get_collection_configs) :
                  get_collection_configs[j].name = calls[k].name =>
                      \A h \in (j + 1)..Len(get_collection_configs) :
                          \A g \in 1..Len(calls) :
                              calls[g].name # get_collection_configs[h].name

C4_Witness ==
    /\ Finished /\ Len(calls) > 0
    /\ Last(calls).op = "create_collection" /\ Failed(Last(calls))
    /\ Len(created_collections) \in 1..(Len(get_collection_configs) - 2)

\* C5: when the client cannot be initialized the run ends with exit code 1
\* having made no other call, changed nothing in the store and written no
\* report.
C5_InitFailure ==
    (Len(calls) >= 1 /\ calls[1].op = "PersistentClient" /\ Failed(calls[1])) =>
        /\ Len(calls) = 1
        /\ Finished /\ exitCode = 1
        /\ store = store0
        /\ writes = 0

C5_Witness ==
    /\ Len(calls) = 1 /\ Failed(calls[1]) /\ Finished
    /\ run >= 2 /\ prevExit = 0 /\ report.present

\* C6: a report written by the run has exactly one record per collection of
\* the store, with the collection's name, metadata and document count.
C6_ReportMatchesStore ==
    writes >= 1 =>
        /\ report.present
        /\ Len(report.data) = Cardinality(DOMAIN store)
        /\ \A n \in DOMAIN store :
              /\ Cardinality({k \in 1..Len(report.data) : report.data[k].name = n}) = 1
              /\ \A k \in 1..Len(report.data) :
                    report.data[k].name = n =>
                        /\ report.data[k].metadata = store[n].metadata
                        /\ report.data[k].document_count = count(store, n)
                        /\ report.data[k].document_count \in Nat

C6_Witness ==
    /\ writes >= 1
    /\ Len(report.data) > Len(get_collection_configs)
    /\ \E k \in 1..Len(report.data) : report.data[k].document_count > 0

\* C7: the report is written at most once per run and only after the client
\* was initialized, all five configurations were processed and both loops
\* over the listed collections succeeded; the exit code is 0 exactly when the
\* report was written; a failure from list_collections on gives exit code 1
\* and no report.
C7_ReportLastAndOnce ==
    /\ writes <= 1
    /\ writes = 1 =>
          /\ Finished
          /\ calls[1] = Call("PersistentClient", "", "ok")
          /\ created_collections = ConfigNameSeq
          /\ ListPos > 0 /\ calls[ListPos].out = "ok"
          /\ all_collections = list_collections(store)
          /\ SubSeq(calls, ListPos + 1, Len(calls)) = PassCalls \o PassCalls
    /\ Finished => (exitCode = 0 <=> writes = 1)
    /\ (ListPos > 0 /\ \E k \in ListPos..Len(calls) : Failed(calls[k])) =>
          /\ writes = 0
          /\ Finished /\ exitCode = 1

C7_Witness ==
    /\ run >= 2 /\ prevExit = 0 /\ report.present
    /\ Finished /\ exitCode = 1 /\ writes = 0
    /\ Len(calls) > 0 /\ Last(calls).op = "count"
    /\ Len(collections_info) > 0

\* C8: on an empty store and without failing calls the run exits 0, calls
\* create_collection once per configured name in configuration order and
\* writes five records, one per configured name, each with no documents.
C8_EmptyStoreRun ==
    (run = 1 /\ DOMAIN store0 = {} /\ Finished /\ NoFault) =>
        /\ exitCode = 0
        /\ CreateCalls = [k \in 1..Len(get_collection_configs) |->
               Call("create_collection", get_collection_configs[k].name, "ok")]
        /\ writes = 1
        /\ Len(report.data) = 5
        /\ \A n \in ConfigNames :
              \E k \in 1..Len(report.data) :
                  report.data[k].name = n /\ report.data[k].document_count = 0

C8_Witness ==
    run = 1 /\ DOMAIN store0 = {} /\ Finished /\ NoFault /\ writes = 1

\* C9 (as stated): a failing collaborator call is the last call of its run,
\* and the run ends with exit code 1.
C9_EveryErrorTerminal ==
    \A k \in 1..Len(calls) :
        Failed(calls[k]) =>
            /\ k = Len(calls)
            /\ Finished => exitCode = 1

\* C10: a run only adds collections: what the store held when the run
\* started is still there unchanged, what the run added has a configured
\* name, that name's configured metadata and no documents, and everything
\* create_collection added stays in the store when the run fails later.
C10_OnlyAdds ==
    /\ \A n \in DOMAIN store0 : n \in DOMAIN store /\ store[n] = store0[n]
    /\ \A n \in DOMAIN store \ DOMAIN store0 :
          /\ n \in ConfigNames
          /\ store[n] = [metadata |-> ConfigMetadata(n), docs |-> 0]
    /\ \A k \in 1..Len(calls) :
          (calls[k].op = "create_collection" /\ calls[k].out = "ok") =>
              calls[k].name \in DOMAIN store

C10_Witness ==
    /\ Finished /\ exitCode = 1
    /\ DOMAIN store \ DOMAIN store0 # {}
    /\ \E n \in DOMAIN store0 :
          n \in ConfigNames /\ store0[n].metadata # ConfigMetadata(n) /\ store0[n].docs > 0
====
